---- MODULE Spec2Model ----
\* Comment-line counter (main.go): the character-cursor scanner of analyzeFile
\* and the run around it (main, countCommentLines, processFiles, printResults).
\* Text is modelled as sequences of one-character strings; the cursor i is
\* 0-based as in the source, line[i:] is From(line, i).
EXTENDS Integers, Sequences, FiniteSets, TLC

\* ---------------------------------------------------------------- bounds
\* longest line of the unconstrained file
MaxLineLen == 3
\* most lines read from the unconstrained file
MaxLines == 3
\* most entries of the directory the program is run on
MaxFiles == 3
\* lines of a file of unconstrained content that both revisions are run on
MaxRegexLines == 2

\* characters the unconstrained file is written in: every character that
\* occurs in a marker of the C/C++ entry, and one ("x") that occurs in none
Alphabet == {"/", "*", "\"", "'", "\\", "x"}

RECURSIVE SeqsUpTo(_, _)
SeqsUpTo(S, n) ==
  IF n = 0 THEN {<<>>}
  ELSE LET shorter == SeqsUpTo(S, n - 1)
       IN  shorter \cup {Append(s, c) : s \in {t \in shorter : Len(t) = n - 1}, c \in S}

Lines == SeqsUpTo(Alphabet, MaxLineLen)

\* ---------------------------------------------------------------- language
CCpp ==
  [ inlineCommentStart |-> <<"/", "/">>,
    blockCommentStart  |-> <<"/", "*">>,
    blockCommentEnd    |-> <<"*", "/">>,
    lineContinuation   |-> <<"\\">>,
    escapeCharacter    |-> <<"\\">>,
    stringDelimiter    |-> << <<"\"">>, <<"'">> >>,
    fileExtensions     |-> <<".c", ".cpp", ".h", ".hpp">> ]

languageSpecs == [k \in {"C/C++"} |-> CCpp]

ZeroStats == [TotalLines |-> 0, InlineComments |-> 0, BlockComments |-> 0]

\* ---------------------------------------------------------------- disk
\* Files with known content, in lexicographic order of their paths; a path
\* is named by its position in this order.
Disk ==
  << [ path |-> "a/e2e.c", ext |-> ".c",
       text |-> << <<"i", "n", "t", " ", "x", ";", " ", "/", "/", " ", "n", "o", "t", "e">>,
                   <<"/", "*", " ", "b", "l", "o", "c", "k">>,
                   <<"s", "p", "a", "n", "n", "i", "n", "g", " ", "*", "/">>,
                   <<"i", "n", "t", " ", "y", ";">> >> ],
     [ path |-> "b/empty.h", ext |-> ".h",
       text |-> <<  >> ],
     [ path |-> "c/open.c", ext |-> ".c",
       text |-> << <<"/", "*", " ", "o", "p", "e", "n">>,
                   << >>,
                   <<"t", "a", "i", "l">> >> ],
     [ path |-> "d/dangling.c", ext |-> ".c",
       text |-> << <<"/", "/", " ", "l", "a", "s", "t", " ", "\\">> >> ],
     [ path |-> "e/quote.c", ext |-> ".c",
       text |-> << <<"s", " ", "=", " ", "\"", "a", "b", "c">> >> ],
     [ path |-> "f/e2e.c", ext |-> ".c",
       text |-> << <<"i", "n", "t", " ", "x", ";", " ", "/", "/", " ", "n", "o", "t", "e">>,
                   <<"/", "*", " ", "b", "l", "o", "c", "k">>,
                   <<"s", "p", "a", "n", "n", "i", "n", "g", " ", "*", "/">>,
                   <<"i", "n", "t", " ", "y", ";">> >> ],
     [ path |-> "g/STRING.CPP", ext |-> ".CPP",
       text |-> << <<"x", " ", "=", " ", "\"", "/", "/", " ", "n", "o", "t", " ", "a", " ", "c", "o", "m", "m", "e", "n", "t", "\"", ";">> >> ],
     [ path |-> "h/carry.c", ext |-> ".c",
       text |-> << <<"/", "/", " ", "c", "o", "m", "m", "e", "n", "t", " ", "\\">>,
                   <<"m", "o", "r", "e", " ", "c", "o", "m", "m", "e", "n", "t">> >> ],
     [ path |-> "i/escape.c", ext |-> ".c",
       text |-> << <<"\"", "a", "\\", "\"", "/", "/", "b", "\"">>,
                   <<"\"", "\\", "\\", "\"">> >> ],
     [ path |-> "j/notes.txt", ext |-> ".txt",
       text |-> << <<"/", "/", " ", "t", "o", "d", "o">> >> ],
     [ path |-> "k/dont.c", ext |-> ".c",
       text |-> << <<"/", "*", " ", "d", "o", "n", "'", "t", " ", "*", "/">>,
                   <<"/", "/", " ", "d", "o", "n", "'", "t">>,
                   <<"/", "*", " ", "l", "a", "t", "e", "r", " ", "*", "/">> >> ],
     [ path |-> "l/reopen.c", ext |-> ".c",
       text |-> << <<"/", "*", " ", "a", " ", "*", "/", " ", "x", " ", "/", "*", " ", "b">>,
                   <<"*", "/", " ", "y", " ", "/", "*", " ", "c", " ", "*", "/", " ", "z">> >> ],
     [ path |-> "m/instring.c", ext |-> ".c",
       text |-> << <<"s", " ", "=", " ", "\"", "/", "*", " ", "x", "\"", ";">>,
                   <<"y", ";">> >> ],
     [ path |-> "n/split.c", ext |-> ".c",
       text |-> << <<"s", " ", "=", " ", "\"", "a", "b", "\\">>,
                   <<"c", "d", "\"", ";", " ", "/", "/", " ", "x">> >> ] >>

Entries == 1 .. Len(Disk)
\* a file whose content is not fixed: each read yields any line of Lines
AnyFile == Len(Disk) + 1
\* the file of the disk at a path
FileAt(p) == CHOOSE e \in Entries : Disk[e].path = p

\* strings.ToLower on the extensions that occur on the disk
ToLower == [e \in {".c", ".h", ".CPP", ".txt"} |->
              IF e = ".CPP" THEN ".cpp" ELSE e]

\* what a directory argument can name: a missing directory, or a directory
\* holding some of the files of the disk
Dirs ==
  {[exists |-> FALSE, entries |-> {}]} \cup
  {[exists |-> TRUE, entries |-> S] : S \in {T \in SUBSET Entries : Cardinality(T) <= MaxFiles}}

\* the zero value of LanguageSpec
ZeroSpec ==
  [ inlineCommentStart |-> << >>,
    blockCommentStart  |-> << >>,
    blockCommentEnd    |-> << >>,
    lineContinuation   |-> << >>,
    escapeCharacter    |-> << >>,
    stringDelimiter    |-> << >>,
    fileExtensions     |-> << >> ]

\* a nil or empty map[string]FileStats
NoStats == [f \in {} |-> ZeroStats]

VARIABLES
  env,                      \* ACTIVE_LANGUAGE
  args,                     \* os.Args[1:], each argument the directory it names
  pc,                       \* position in the program
  activeLanguage,           \* main.go:43
  files,                    \* main.go:82
  fidx,                     \* position of the loop of main.go:139 in files
  stats,                    \* main.go:137
  err,                      \* the error main received, "nil" if none
  out,                      \* what was printed
  left,                     \* history: the flags the last analyzeFile ended with
  file,                     \* analyzeFile's argument
  pos,                      \* lines the bufio.Scanner has delivered from file
  stat,                     \* main.go:158
  isInBlockComment,         \* main.go:159
  isInInlineComment,        \* main.go:160
  isInString,               \* main.go:161
  currentStringDelimiter,   \* main.go:162
  line,                     \* main.go:166
  isCountedAsBlockCommment, \* main.go:169
  lineContinued,            \* main.go:170
  i,                        \* main.go:175
  ret,                      \* what analyzeFile returned: [stat, err]
  carry,                    \* history: the flags as the current line was read
  base,                     \* history: stat as the current line was read
  openLine,                 \* history: line on which the open block comment started
  openBase,                 \* history: BlockComments before that line
  regex                     \* the regex revision of analyzeFile, when it is run
                            \* on the same lines: [on, stat, inBlockComment]

envVars == << env, args >>
runVars == << files, fidx, stats, err, out, left >>

vars == << env, args, files, fidx, stats, err, out, left, pc, activeLanguage, file, pos, stat, isInBlockComment,
           isInInlineComment, isInString, currentStringDelimiter, line,
           isCountedAsBlockCommment, lineContinued, i, ret, carry, base,
           openLine, openBase, regex >>

scanVars == << stat, isInBlockComment, isInInlineComment, isInString,
               currentStringDelimiter, line, isCountedAsBlockCommment,
               lineContinued, i >>
histVars == << carry, base, openLine, openBase, regex >>

NoFlags == [block |-> FALSE, inline |-> FALSE, string |-> FALSE]
Flags == [block |-> isInBlockComment, inline |-> isInInlineComment, string |-> isInString]

\* ---------------------------------------------------------------- strings
\* strings.HasPrefix(s, prefix)
HasPrefix(s, prefix) ==
  Len(s) >= Len(prefix) /\ SubSeq(s, 1, Len(prefix)) = prefix

\* l[k:] for 0 <= k <= len(l)
From(l, k) == SubSeq(l, k + 1, Len(l))

\* ---------------------------------------------------------------- the regex revision
\* unicode.IsSpace, on the characters of the texts
IsSpace(c) == c \in {" ", "\t"}

RECURSIVE TrimLeft(_)
TrimLeft(l) ==
  IF l # << >> /\ IsSpace(Head(l)) THEN TrimLeft(Tail(l)) ELSE l

RECURSIVE TrimRight(_)
TrimRight(l) ==
  IF l # << >> /\ IsSpace(l[Len(l)]) THEN TrimRight(SubSeq(l, 1, Len(l) - 1)) ELSE l

\* part_000:126, strings.TrimSpace
TrimSpace(l) == TrimRight(TrimLeft(l))

\* part_000:120-122, the three patterns, each the literal text of a marker
blockStart == <<"/", "*">>
blockEnd == <<"*", "/">>
inlineComment == <<"/", "/">>

\* regexp.MatchString of a literal pattern: it occurs somewhere in l
MatchString(re, l) ==
  \E k \in 0 .. Len(l) - Len(re) : HasPrefix(From(l, k), re)

\* part_000:118-119
RegexInit == [on |-> TRUE, stat |-> ZeroStats, inBlockComment |-> FALSE]
\* the regex revision is not run
NoRegex == [on |-> FALSE, stat |-> ZeroStats, inBlockComment |-> FALSE]

\* a line inside a block comment is left out of the total
RegexLine_NoTotalInBlock(r, text) ==
  LET l == TrimSpace(text)
      total == [r.stat EXCEPT !.TotalLines = @ + 1]
  IN  IF r.inBlockComment
      THEN [r EXCEPT !.stat = [r.stat EXCEPT !.BlockComments = @ + 1],
                    !.inBlockComment = ~MatchString(blockEnd, l)]
      ELSE IF MatchString(blockStart, l)
      THEN [r EXCEPT !.stat = [total EXCEPT !.BlockComments = @ + 1],
                    !.inBlockComment = ~MatchString(blockEnd, l)]
      ELSE IF MatchString(inlineComment, l)
      THEN [r EXCEPT !.stat = [total EXCEPT !.InlineComments = @ + 1],
                    !.inBlockComment = FALSE]
      ELSE [r EXCEPT !.stat = total, !.inBlockComment = FALSE]

\* part_000:126-144, one iteration of the loop of the regex revision
RegexLine(r, text) ==
  LET l == TrimSpace(text)
      total == [r.stat EXCEPT !.TotalLines = @ + 1]
  IN  IF r.inBlockComment
      THEN [r EXCEPT !.stat = [total EXCEPT !.BlockComments = @ + 1],
                    !.inBlockComment = ~MatchString(blockEnd, l)]
      ELSE IF MatchString(blockStart, l)
      THEN [r EXCEPT !.stat = [total EXCEPT !.BlockComments = @ + 1],
                    !.inBlockComment = ~MatchString(blockEnd, l)]
      ELSE IF MatchString(inlineComment, l)
      THEN [r EXCEPT !.stat = [total EXCEPT !.InlineComments = @ + 1],
                    !.inBlockComment = FALSE]
      ELSE [r EXCEPT !.stat = total, !.inBlockComment = FALSE]

\* ---------------------------------------------------------------- analyzeFile
\* the flags are package-level variables, set once
OpenFile_KeepsFlags ==
  /\ pc = "analyzeFile"
  /\ pc' = "scan"
  /\ pos' = 0
  /\ stat' = ZeroStats
  /\ line' = << >>
  /\ isCountedAsBlockCommment' = FALSE
  /\ lineContinued' = FALSE
  /\ i' = 0
  /\ carry' = Flags
  /\ base' = ZeroStats
  /\ openLine' = 0
  /\ openBase' = 0
  /\ regex' = IF regex.on THEN RegexInit ELSE regex
  /\ UNCHANGED << envVars, runVars, activeLanguage, file, ret, isInBlockComment,
                  isInInlineComment, isInString, currentStringDelimiter >>

\* the statistics are a package-level variable, zero at the start of the run
OpenFile_KeepsStat ==
  /\ pc = "analyzeFile"
  /\ pc' = "scan"
  /\ pos' = 0
  /\ isInBlockComment' = FALSE
  /\ isInInlineComment' = FALSE
  /\ isInString' = FALSE
  /\ currentStringDelimiter' = << >>
  /\ line' = << >>
  /\ isCountedAsBlockCommment' = FALSE
  /\ lineContinued' = FALSE
  /\ i' = 0
  /\ carry' = NoFlags
  /\ base' = stat
  /\ openLine' = 0
  /\ openBase' = 0
  /\ regex' = IF regex.on THEN RegexInit ELSE regex
  /\ UNCHANGED << envVars, runVars, activeLanguage, file, ret, stat >>

\* os.Open succeeded: the locals of main.go:158-163
OpenFile ==
  /\ pc = "analyzeFile"
  /\ pc' = "scan"
  /\ pos' = 0
  /\ stat' = ZeroStats
  /\ isInBlockComment' = FALSE
  /\ isInInlineComment' = FALSE
  /\ isInString' = FALSE
  /\ currentStringDelimiter' = << >>
  /\ line' = << >>
  /\ isCountedAsBlockCommment' = FALSE
  /\ lineContinued' = FALSE
  /\ i' = 0
  /\ carry' = NoFlags
  /\ base' = ZeroStats
  /\ openLine' = 0
  /\ openBase' = 0
  /\ regex' = IF regex.on THEN RegexInit ELSE regex
  /\ UNCHANGED << envVars, runVars, activeLanguage, file, ret >>

\* os.Open failed
OpenError ==
  /\ pc = "analyzeFile"
  /\ pc' = "returned"
  /\ ret' = [stat |-> ZeroStats, err |-> "open"]
  /\ UNCHANGED << envVars, runVars, activeLanguage, file, pos, scanVars, histVars >>

\* the lines scanner.Scan() can deliver next
NextLines ==
  IF file = AnyFile
  THEN IF pos < (IF regex.on THEN MaxRegexLines ELSE MaxLines) THEN Lines ELSE {}
  ELSE IF pos < Len(Disk[file].text) THEN {Disk[file].text[pos + 1]} ELSE {}

AtEOF == IF file = AnyFile THEN TRUE ELSE pos = Len(Disk[file].text)

\* main.go:172
LineContinued(l) ==
  Len(l) > 0 /\ l[Len(l)] = activeLanguage.lineContinuation[1]

\* the empty-line statistics with the total left out
BlankStats_NoTotal ==
  [stat EXCEPT
     !.InlineComments = IF isInInlineComment THEN @ + 1 ELSE @,
     !.BlockComments = IF isInBlockComment THEN @ + 1 ELSE @]

\* the empty-line statistics with the open block comment left out
BlankStats_NoBlock ==
  [stat EXCEPT
     !.TotalLines = @ + 1,
     !.InlineComments = IF isInInlineComment THEN @ + 1 ELSE @]

\* main.go:167 and 176-183: the statistics after an empty line
BlankStats ==
  [stat EXCEPT
     !.TotalLines = @ + 1,
     !.InlineComments = IF isInInlineComment THEN @ + 1 ELSE @,
     !.BlockComments = IF isInBlockComment THEN @ + 1 ELSE @]

\* scanner.Scan() delivered a line: main.go:166-185
ReadLine(l) ==
  /\ pc = "scan"
  /\ l \in NextLines
  /\ pos' = pos + 1
  /\ line' = l
  /\ isCountedAsBlockCommment' = FALSE
  /\ lineContinued' = LineContinued(l)
  /\ i' = 0
  /\ carry' = Flags
  /\ base' = stat
  /\ IF l = << >>
     THEN /\ stat' = BlankStats
          /\ isInInlineComment' = FALSE
          /\ pc' = "scan"
     ELSE /\ stat' = [stat EXCEPT !.TotalLines = @ + 1]
          /\ isInInlineComment' = isInInlineComment
          /\ pc' = "loop"
  /\ UNCHANGED << envVars, runVars, activeLanguage, file, isInBlockComment, isInString,
                  currentStringDelimiter, ret, openLine, openBase >>
  /\ regex' = IF regex.on THEN RegexLine(regex, l) ELSE regex

\* the part of the line at and after the cursor
rest == From(line, i)

InLoop == pc = "loop" /\ i < Len(line)

\* main.go:186, the loop condition fails
LineDone ==
  /\ pc = "loop"
  /\ ~(i < Len(line))
  /\ pc' = "scan"
  /\ UNCHANGED << envVars, runVars, activeLanguage, file, pos, scanVars, ret, histVars >>

\* any string delimiter closes the open string
StringEndCond_AnyDelimiter ==
  /\ isInString
  /\ \E d \in 1 .. Len(activeLanguage.stringDelimiter) :
       HasPrefix(rest, activeLanguage.stringDelimiter[d])

\* main.go:189
StringEndCond == isInString /\ HasPrefix(rest, currentStringDelimiter)
\* main.go:197
StringEscapeCond ==
  isInString /\ ~StringEndCond /\ HasPrefix(rest, activeLanguage.escapeCharacter)
\* control reaches main.go:203
PastString == ~StringEndCond /\ ~StringEscapeCond

\* main.go:189-194
StringEnd ==
  /\ InLoop
  /\ StringEndCond
  /\ isInString' = FALSE
  /\ i' = i + Len(currentStringDelimiter)
  /\ currentStringDelimiter' = << >>
  /\ UNCHANGED << envVars, runVars, pc, activeLanguage, file, pos, stat, isInBlockComment,
                  isInInlineComment, line, isCountedAsBlockCommment,
                  lineContinued, ret, histVars >>

\* the escape character alone is skipped
StringEscape_SkipsOne ==
  /\ InLoop
  /\ StringEscapeCond
  /\ i' = i + 1
  /\ UNCHANGED << envVars, runVars, pc, activeLanguage, file, pos, stat, isInBlockComment,
                  isInInlineComment, isInString, currentStringDelimiter, line,
                  isCountedAsBlockCommment, lineContinued, ret, histVars >>

\* main.go:197-200
StringEscape ==
  /\ InLoop
  /\ StringEscapeCond
  /\ i' = i + 2
  /\ UNCHANGED << envVars, runVars, pc, activeLanguage, file, pos, stat, isInBlockComment,
                  isInInlineComment, isInString, currentStringDelimiter, line,
                  isCountedAsBlockCommment, lineContinued, ret, histVars >>

\* an open block comment is not counted on the lines it continues on
statCounted_Never == stat

\* main.go:203-207: the statistics and the per-line flag once control is past
\* the counting of an open block comment
statCounted ==
  IF isInBlockComment /\ ~isCountedAsBlockCommment
  THEN [stat EXCEPT !.BlockComments = @ + 1]
  ELSE stat
countedNow == isCountedAsBlockCommment \/ isInBlockComment

\* the start marker is tested where the end marker is meant
BlockEndCond_StartMarker ==
  PastString /\ isInBlockComment /\ HasPrefix(rest, activeLanguage.blockCommentStart)

\* main.go:209
BlockEndCond ==
  PastString /\ isInBlockComment /\ HasPrefix(rest, activeLanguage.blockCommentEnd)
\* control reaches main.go:216
PastBlock == PastString /\ ~BlockEndCond

\* main.go:203-213
BlockEnd ==
  /\ InLoop
  /\ BlockEndCond
  /\ stat' = statCounted
  /\ isCountedAsBlockCommment' = countedNow
  /\ isInBlockComment' = FALSE
  /\ i' = i + Len(activeLanguage.blockCommentEnd)
  /\ UNCHANGED << envVars, runVars, pc, activeLanguage, file, pos, isInInlineComment, isInString,
                  currentStringDelimiter, line, lineContinued, ret, histVars >>

\* the carried comment is closed whatever the line ends with
InlineCarry_AlwaysCloses ==
  /\ InLoop
  /\ PastBlock
  /\ isInInlineComment
  /\ stat' = [statCounted EXCEPT !.InlineComments = @ + 1]
  /\ isCountedAsBlockCommment' = countedNow
  /\ isInInlineComment' = FALSE
  /\ pc' = "scan"
  /\ UNCHANGED << envVars, runVars, activeLanguage, file, pos, isInBlockComment, isInString,
                  currentStringDelimiter, line, lineContinued, i, ret, histVars >>

\* main.go:216-223, after 203-207
InlineCarry ==
  /\ InLoop
  /\ PastBlock
  /\ isInInlineComment
  /\ stat' = [statCounted EXCEPT !.InlineComments = @ + 1]
  /\ isCountedAsBlockCommment' = countedNow
  /\ isInInlineComment' = lineContinued
  /\ pc' = "scan"
  /\ UNCHANGED << envVars, runVars, activeLanguage, file, pos, isInBlockComment, isInString,
                  currentStringDelimiter, line, lineContinued, i, ret, histVars >>

\* control reaches main.go:226
PastCarry == PastBlock /\ ~isInInlineComment

\* the test for an open block comment is missing
OpeningDelimiters_NoBlockTest ==
  { d \in 1 .. Len(activeLanguage.stringDelimiter) :
      /\ HasPrefix(rest, activeLanguage.stringDelimiter[d])
      /\ ~isInInlineComment /\ ~isInString }

\* main.go:228: the delimiters, by position in the list, that open a string here
OpeningDelimiters ==
  { d \in 1 .. Len(activeLanguage.stringDelimiter) :
      /\ HasPrefix(rest, activeLanguage.stringDelimiter[d])
      /\ ~isInBlockComment /\ ~isInInlineComment /\ ~isInString }

Min(S) == CHOOSE m \in S : \A n \in S : m <= n

\* main.go:226-238, after 203-207
StringStart ==
  /\ InLoop
  /\ PastCarry
  /\ OpeningDelimiters # {}
  /\ LET delimiter == activeLanguage.stringDelimiter[Min(OpeningDelimiters)]
     IN  /\ isInString' = TRUE
         /\ currentStringDelimiter' = delimiter
         /\ i' = i + Len(delimiter)
  /\ stat' = statCounted
  /\ isCountedAsBlockCommment' = countedNow
  /\ UNCHANGED << envVars, runVars, pc, activeLanguage, file, pos, isInBlockComment,
                  isInInlineComment, line, lineContinued, ret, histVars >>

\* control reaches main.go:240
PastStringStart == PastCarry /\ OpeningDelimiters = {}

\* the test for an open string is missing
BlockStartCond_NoStringTest ==
  /\ HasPrefix(rest, activeLanguage.blockCommentStart)
  /\ ~isInBlockComment /\ ~isInInlineComment

\* main.go:240
BlockStartCond ==
  /\ HasPrefix(rest, activeLanguage.blockCommentStart)
  /\ ~isInString /\ ~isInBlockComment /\ ~isInInlineComment

\* the line is counted again at every start marker
BlockStart_CountsAlways ==
  /\ InLoop
  /\ PastStringStart
  /\ BlockStartCond
  /\ isInBlockComment' = TRUE
  /\ i' = i + Len(activeLanguage.blockCommentStart)
  /\ stat' = [statCounted EXCEPT !.BlockComments = @ + 1]
  /\ isCountedAsBlockCommment' = TRUE
  /\ openLine' = stat.TotalLines
  /\ openBase' = base.BlockComments
  /\ UNCHANGED << envVars, runVars, pc, activeLanguage, file, pos, isInInlineComment, isInString,
                  currentStringDelimiter, line, lineContinued, ret, carry, base, regex >>

\* main.go:240-248, after 203-207
BlockStart ==
  /\ InLoop
  /\ PastStringStart
  /\ BlockStartCond
  /\ isInBlockComment' = TRUE
  /\ i' = i + Len(activeLanguage.blockCommentStart)
  /\ stat' = IF ~countedNow
             THEN [statCounted EXCEPT !.BlockComments = @ + 1]
             ELSE statCounted
  /\ isCountedAsBlockCommment' = TRUE
  /\ openLine' = stat.TotalLines
  /\ openBase' = base.BlockComments
  /\ UNCHANGED << envVars, runVars, pc, activeLanguage, file, pos, isInInlineComment, isInString,
                  currentStringDelimiter, line, lineContinued, ret, carry, base, regex >>

\* the test for an open string is missing
InlineStartCond_NoStringTest ==
  /\ HasPrefix(rest, activeLanguage.inlineCommentStart)
  /\ ~isInBlockComment

\* main.go:251
InlineStartCond ==
  /\ HasPrefix(rest, activeLanguage.inlineCommentStart)
  /\ ~isInString /\ ~isInBlockComment

\* the line is counted as a block-comment line
InlineStart_CountsBlock ==
  /\ InLoop
  /\ PastStringStart
  /\ ~BlockStartCond
  /\ InlineStartCond
  /\ stat' = [statCounted EXCEPT !.BlockComments = @ + 1]
  /\ isCountedAsBlockCommment' = countedNow
  /\ isInInlineComment' = lineContinued
  /\ pc' = "scan"
  /\ UNCHANGED << envVars, runVars, activeLanguage, file, pos, isInBlockComment, isInString,
                  currentStringDelimiter, line, lineContinued, i, ret, histVars >>

\* the comment is carried on whatever the line ends with
InlineStart_AlwaysCarries ==
  /\ InLoop
  /\ PastStringStart
  /\ ~BlockStartCond
  /\ InlineStartCond
  /\ stat' = [statCounted EXCEPT !.InlineComments = @ + 1]
  /\ isCountedAsBlockCommment' = countedNow
  /\ isInInlineComment' = TRUE
  /\ pc' = "scan"
  /\ UNCHANGED << envVars, runVars, activeLanguage, file, pos, isInBlockComment, isInString,
                  currentStringDelimiter, line, lineContinued, i, ret, histVars >>

\* main.go:251-258, after 203-207
InlineStart ==
  /\ InLoop
  /\ PastStringStart
  /\ ~BlockStartCond
  /\ InlineStartCond
  /\ stat' = [statCounted EXCEPT !.InlineComments = @ + 1]
  /\ isCountedAsBlockCommment' = countedNow
  /\ isInInlineComment' = lineContinued
  /\ pc' = "scan"
  /\ UNCHANGED << envVars, runVars, activeLanguage, file, pos, isInBlockComment, isInString,
                  currentStringDelimiter, line, lineContinued, i, ret, histVars >>

\* the cursor is left where it is
Advance_NoStep ==
  /\ InLoop
  /\ PastStringStart
  /\ ~BlockStartCond
  /\ ~InlineStartCond
  /\ i' = i
  /\ stat' = statCounted
  /\ isCountedAsBlockCommment' = countedNow
  /\ UNCHANGED << envVars, runVars, pc, activeLanguage, file, pos, isInBlockComment,
                  isInInlineComment, isInString, currentStringDelimiter, line,
                  lineContinued, ret, histVars >>

\* main.go:261, after 203-207
Advance ==
  /\ InLoop
  /\ PastStringStart
  /\ ~BlockStartCond
  /\ ~InlineStartCond
  /\ i' = i + 1
  /\ stat' = statCounted
  /\ isCountedAsBlockCommment' = countedNow
  /\ UNCHANGED << envVars, runVars, pc, activeLanguage, file, pos, isInBlockComment,
                  isInInlineComment, isInString, currentStringDelimiter, line,
                  lineContinued, ret, histVars >>

\* scanner.Scan() returned false at the end of the file: main.go:265-269
ReturnStats ==
  /\ pc = "scan"
  /\ AtEOF
  /\ pc' = "returned"
  /\ ret' = [stat |-> stat, err |-> "nil"]
  /\ UNCHANGED << envVars, runVars, activeLanguage, file, pos, scanVars, histVars >>

\* scanner.Scan() returned false on an error, of reading or of a line beyond
\* the buffer of the bufio.Scanner: main.go:265-267
ReadError ==
  /\ pc = "scan"
  /\ pc' = "returned"
  /\ ret' = [stat |-> ZeroStats, err |-> "read"]
  /\ UNCHANGED << envVars, runVars, activeLanguage, file, pos, scanVars, histVars >>

Iterate ==
  \/ StringEnd
  \/ StringEscape
  \/ BlockEnd
  \/ InlineCarry
  \/ StringStart
  \/ BlockStart
  \/ InlineStart
  \/ Advance


\* ---------------------------------------------------------------- the run
\* values of ACTIVE_LANGUAGE: unset, the built-in key, a key not in the registry
Keys == {"", "C/C++", "Go"}

MissingDir == [exists |-> FALSE, entries |-> {}]
Args == {<< >>} \cup {<<d>> : d \in Dirs} \cup {<<MissingDir, MissingDir>>}

\* main.go:47-50
configured_lang == IF env = "" THEN "C/C++" ELSE env

\* the error is printed and the run goes on
MainUnsupported_GoesOn ==
  /\ pc = "main"
  /\ configured_lang \notin DOMAIN languageSpecs
  /\ activeLanguage' = ZeroSpec
  /\ out' = Append(out, [kind |-> "unsupported language"])
  /\ pc' = IF Len(args) = 1 THEN "countCommentLines" ELSE "exit"
  /\ UNCHANGED << envVars, files, fidx, stats, err, left, file, pos, scanVars,
                  ret, histVars >>

\* main.go:47-56, the key is not in the registry
MainUnsupported ==
  /\ pc = "main"
  /\ configured_lang \notin DOMAIN languageSpecs
  /\ activeLanguage' = ZeroSpec
  /\ out' = Append(out, [kind |-> "unsupported language"])
  /\ pc' = "exit"
  /\ UNCHANGED << envVars, files, fidx, stats, err, left, file, pos, scanVars,
                  ret, histVars >>

\* main.go:47-59, the wrong number of arguments
MainHelp ==
  /\ pc = "main"
  /\ configured_lang \in DOMAIN languageSpecs
  /\ Len(args) # 1
  /\ activeLanguage' = languageSpecs[configured_lang]
  /\ out' = Append(out, [kind |-> "usage"])
  /\ pc' = "exit"
  /\ UNCHANGED << envVars, files, fidx, stats, err, left, file, pos, scanVars,
                  ret, histVars >>

\* main.go:47-62, countCommentLines is called
MainRun ==
  /\ pc = "main"
  /\ configured_lang \in DOMAIN languageSpecs
  /\ Len(args) = 1
  /\ activeLanguage' = languageSpecs[configured_lang]
  /\ pc' = "countCommentLines"
  /\ UNCHANGED << envVars, runVars, file, pos, scanVars, ret, histVars >>

\* countCommentLines returned e to main: main.go:62-64
Fail(e) ==
  /\ err' = e
  /\ out' = Append(out, [kind |-> e])
  /\ pc' = "exit"

\* main.go:77-79
DirMissing ==
  /\ pc = "countCommentLines"
  /\ ~args[1].exists
  /\ Fail("directory does not exist")
  /\ UNCHANGED << envVars, files, fidx, stats, left, activeLanguage, file, pos,
                  scanVars, ret, histVars >>

\* main.go:125-133
isCSourceFile(e) ==
  \E k \in 1 .. Len(activeLanguage.fileExtensions) :
    ToLower[Disk[e].ext] = activeLanguage.fileExtensions[k]

\* the elements of a set of paths in lexicographic order (sort.Strings)
RECURSIVE Sorted(_)
Sorted(S) ==
  IF S = {} THEN << >>
  ELSE LET m == CHOOSE x \in S : \A y \in S : x <= y
       IN  <<m>> \o Sorted(S \ {m})

\* collectSourceFiles, main.go:104-122, called at main.go:82
Collect ==
  /\ pc = "countCommentLines"
  /\ args[1].exists
  /\ files' = Sorted({e \in args[1].entries : isCSourceFile(e)})
  /\ pc' = "collected"
  /\ UNCHANGED << envVars, fidx, stats, err, out, left, activeLanguage, file,
                  pos, scanVars, ret, histVars >>

\* filepath.Walk reported an error: main.go:116-118 and 83-85
WalkError ==
  /\ pc = "countCommentLines"
  /\ args[1].exists
  /\ Fail("error walking through directory")
  /\ UNCHANGED << envVars, files, fidx, stats, left, activeLanguage, file, pos,
                  scanVars, ret, histVars >>

\* main.go:87-89
NoSourceFiles ==
  /\ pc = "collected"
  /\ Len(files) = 0
  /\ Fail("no C/C++ source files found")
  /\ UNCHANGED << envVars, files, fidx, stats, left, activeLanguage, file, pos,
                  scanVars, ret, histVars >>

\* processFiles is called: main.go:92, 137
ProcessFiles ==
  /\ pc = "collected"
  /\ Len(files) # 0
  /\ stats' = NoStats
  /\ fidx' = 1
  /\ pc' = "processFiles"
  /\ UNCHANGED << envVars, files, err, out, left, activeLanguage, file, pos,
                  scanVars, ret, histVars >>

\* main.go:139-140
CallAnalyzeFile ==
  /\ pc = "processFiles"
  /\ fidx <= Len(files)
  /\ file' = files[fidx]
  /\ pc' = "analyzeFile"
  /\ UNCHANGED << envVars, runVars, activeLanguage, pos, scanVars, ret, histVars >>

\* the file that failed is skipped and the loop goes on
FileFailed_Skips ==
  /\ pc = "returned"
  /\ ret.err # "nil"
  /\ left' = Flags
  /\ fidx' = fidx + 1
  /\ pc' = "processFiles"
  /\ UNCHANGED << envVars, files, stats, err, out, activeLanguage, file, pos,
                  scanVars, ret, histVars >>

\* main.go:141-143 and 93-95
FileFailed ==
  /\ pc = "returned"
  /\ ret.err # "nil"
  /\ stats' = NoStats
  /\ left' = Flags
  /\ Fail("error processing file")
  /\ UNCHANGED << envVars, files, fidx, activeLanguage, file, pos, scanVars,
                  ret, histVars >>

\* main.go:144
FileDone ==
  /\ pc = "returned"
  /\ ret.err = "nil"
  /\ stats' = [f \in DOMAIN stats \cup {file} |->
                 IF f = file THEN ret.stat ELSE stats[f]]
  /\ left' = Flags
  /\ fidx' = fidx + 1
  /\ pc' = "processFiles"
  /\ UNCHANGED << envVars, files, err, out, activeLanguage, file, pos,
                  scanVars, ret, histVars >>

\* one line of printResults, main.go:285
ReportLine(f) ==
  [ kind |-> "report", file |-> Disk[f].path, total |-> stats[f].TotalLines,
    inline |-> stats[f].InlineComments, block |-> stats[f].BlockComments ]

\* processFiles returned the map, printResults prints it: main.go:147, 98,
\* 273-286
PrintResults ==
  /\ pc = "processFiles"
  /\ ~(fidx <= Len(files))
  /\ LET sorted == Sorted(DOMAIN stats)
     IN  out' = out \o [k \in 1 .. Len(sorted) |-> ReportLine(sorted[k])]
  /\ pc' = "exit"
  /\ UNCHANGED << envVars, files, fidx, stats, err, left, activeLanguage, file,
                  pos, scanVars, ret, histVars >>

\* ---------------------------------------------------------------- specifications
ScanInit ==
  /\ pos = 0
  /\ stat = ZeroStats
  /\ isInBlockComment = FALSE
  /\ isInInlineComment = FALSE
  /\ isInString = FALSE
  /\ currentStringDelimiter = << >>
  /\ line = << >>
  /\ isCountedAsBlockCommment = FALSE
  /\ lineContinued = FALSE
  /\ i = 0
  /\ ret = [stat |-> ZeroStats, err |-> "nil"]
  /\ carry = NoFlags
  /\ base = ZeroStats
  /\ openLine = 0
  /\ openBase = 0
  /\ regex = NoRegex

\* the lines of the files of the disk
DiskLines == UNION {{Disk[f].text[k] : k \in 1 .. Len(Disk[f].text)} : f \in Entries}

Scanner ==
  \/ OpenFile
  \/ OpenError
  \/ \E l \in Lines \cup DiskLines : ReadLine(l)
  \/ LineDone
  \/ Iterate
  \/ ReturnStats
  \/ ReadError

\* analyzeFile is called on one file, of fixed or of unconstrained content,
\* in a run on the directory that holds this file only
Init ==
  /\ env = "C/C++"
  /\ activeLanguage = languageSpecs["C/C++"]
  /\ file \in {e \in Entries : isCSourceFile(e)} \cup {AnyFile}
  /\ args = << [exists |-> TRUE, entries |-> {file}] >>
  /\ files = <<file>>
  /\ fidx = 1
  /\ stats = NoStats
  /\ err = "nil"
  /\ out = << >>
  /\ left = NoFlags
  /\ pc = "analyzeFile"
  /\ ScanInit

Next == Scanner

Spec == Init /\ [][Next]_vars

\* the regex revision is run on the lines that analyzeFile reads
RegexScanInit ==
  /\ pos = 0
  /\ stat = ZeroStats
  /\ isInBlockComment = FALSE
  /\ isInInlineComment = FALSE
  /\ isInString = FALSE
  /\ currentStringDelimiter = << >>
  /\ line = << >>
  /\ isCountedAsBlockCommment = FALSE
  /\ lineContinued = FALSE
  /\ i = 0
  /\ ret = [stat |-> ZeroStats, err |-> "nil"]
  /\ carry = NoFlags
  /\ base = ZeroStats
  /\ openLine = 0
  /\ openBase = 0
  /\ regex = RegexInit

InitRegex ==
  /\ env = "C/C++"
  /\ activeLanguage = languageSpecs["C/C++"]
  /\ file \in {e \in Entries : isCSourceFile(e)} \cup {AnyFile}
  /\ args = << [exists |-> TRUE, entries |-> {file}] >>
  /\ files = <<file>>
  /\ fidx = 1
  /\ stats = NoStats
  /\ err = "nil"
  /\ out = << >>
  /\ left = NoFlags
  /\ pc = "analyzeFile"
  /\ RegexScanInit

SpecRegex == InitRegex /\ [][Next]_vars

\* analyzeFile is called on a file of the disk
InitLive == Init /\ file \in Entries

\* the call runs on: the program is the only thread, and a read of a file
\* returns a line, the end of the file or an error
SpecLive == InitLive /\ [][Next]_vars /\ WF_vars(Next)

\* the program is started on a directory of the disk
InitRun ==
  /\ env \in Keys
  /\ args \in Args
  /\ activeLanguage = ZeroSpec
  /\ file = AnyFile
  /\ files = << >>
  /\ fidx = 0
  /\ stats = NoStats
  /\ err = "nil"
  /\ out = << >>
  /\ left = NoFlags
  /\ pc = "main"
  /\ ScanInit

NextRun ==
  \/ MainUnsupported
  \/ MainHelp
  \/ MainRun
  \/ DirMissing
  \/ Collect
  \/ WalkError
  \/ NoSourceFiles
  \/ ProcessFiles
  \/ CallAnalyzeFile
  \/ Scanner
  \/ FileFailed
  \/ FileDone
  \/ PrintResults

SpecRun == InitRun /\ [][NextRun]_vars

\* ---------------------------------------------------------------- properties
Scanning == pc \in {"scan", "loop"}
\* a line has been read and scanned to its end
LineScanned == pc = "scan" /\ pos > 0
\* what the current line has added so far
lineInline == stat.InlineComments - base.InlineComments
lineBlock == stat.BlockComments - base.BlockComments
\* every line from the one the open block comment started on to the current
\* one has been counted
SpanCounted(s) == s.BlockComments - openBase = s.TotalLines - openLine + 1

\* C1: a step taken while a string is open changes neither comment counter
\* and opens neither a block nor an inline comment; the scan of the one line
\* x = "// not a comment"; returns no inline and no block comment.
C1_StringSuppressesComments ==
  /\ [][ (Scanning /\ isInString) =>
           /\ stat'.InlineComments = stat.InlineComments
           /\ stat'.BlockComments = stat.BlockComments
           /\ ~isInBlockComment'
           /\ ~isInInlineComment' ]_vars
  /\ [](pc = "returned" /\ file = FileAt("g/STRING.CPP") /\ ret.err = "nil" =>
          ret.stat.InlineComments = 0 /\ ret.stat.BlockComments = 0)

\* the cursor is at an inline-comment marker inside the string of that line
C1_Witness ==
  /\ file = FileAt("g/STRING.CPP")
  /\ InLoop
  /\ isInString
  /\ HasPrefix(rest, activeLanguage.inlineCommentStart)

\* C2: no line adds more than 1 to BlockComments; when the end marker of a
\* block comment is recognized, the lines from the one its start marker was
\* recognized on to the current one have added as many block-comment lines as
\* there are lines (so exactly 1 each, empty lines included); a line that no
\* block comment was open on adds 0.
C2_BlockSpanCountedOncePerLine ==
  /\ [](lineBlock \in {0, 1})
  /\ [][BlockEnd => SpanCounted(stat')]_vars
  /\ [](LineScanned /\ ~carry.block /\ openLine # stat.TotalLines => lineBlock = 0)

\* the end marker was recognized two lines or more after the start marker
C2_Witness ==
  /\ pc = "loop"
  /\ carry.block
  /\ ~isInBlockComment
  /\ openLine > 0
  /\ stat.TotalLines >= openLine + 2
  /\ SpanCounted(stat)

\* C3: a line read while an inline comment is carried adds 1 to
\* InlineComments whatever it holds, and the comment stays open after it
\* exactly if it ends with the continuation character; a line that was
\* counted as an inline comment and ends with the continuation character
\* carries the comment on.
C3_ContinuedInlineCarries ==
  LineScanned =>
    /\ carry.inline => lineInline = 1 /\ (isInInlineComment <=> lineContinued)
    /\ lineInline = 1 /\ lineContinued => isInInlineComment

\* an empty line closed a carried comment, both lines counted
C3_Witness ==
  /\ LineScanned
  /\ carry.inline
  /\ line = << >>
  /\ stat.InlineComments = 2
  /\ ~isInInlineComment

\* C4: during the scan TotalLines is the number of lines read, and so is the
\* total returned.
C4_TotalLinesIsLinesRead ==
  /\ Scanning => stat.TotalLines = pos
  /\ pc = "returned" /\ ret.err = "nil" => ret.stat.TotalLines = pos

\* an empty line was read inside an open string, after a line that stopped
\* at an inline comment
C4_Witness ==
  /\ pc = "scan"
  /\ pos = 3
  /\ line = << >>
  /\ isInString
  /\ stat.InlineComments = 1

\* C5: the only errors analyzeFile returns are those of opening and reading;
\* when it returns at the end of a file inside a block comment, it returns
\* the statistics, in which every line from the one the comment started on to
\* the last one is counted once.
C5_UnterminatedBlockComment ==
  /\ lineBlock \in {0, 1}
  /\ pc = "returned" =>
       /\ ret.err \in {"nil", "open", "read"}
       /\ ret.err = "nil" /\ isInBlockComment =>
            ret.stat = stat /\ SpanCounted(ret.stat)

\* the file ended two lines or more after the start of the comment
C5_Witness ==
  /\ pc = "returned"
  /\ ret.err = "nil"
  /\ isInBlockComment
  /\ stat.TotalLines >= openLine + 2

\* C6 as stated: a line that starts with the inline marker adds 1 to
\* InlineComments and 0 to BlockComments, whatever was open before it.
C6_AnyCarriedState ==
  LineScanned /\ HasPrefix(line, activeLanguage.inlineCommentStart) =>
    lineInline = 1 /\ lineBlock = 0

\* C6 amended: a line that starts with the inline marker, read while neither
\* a string nor a block comment is open, adds 1 to InlineComments and 0 to
\* BlockComments.
C6_OutsideStringAndBlock ==
  LineScanned /\ HasPrefix(line, activeLanguage.inlineCommentStart)
              /\ ~carry.string /\ ~carry.block =>
    lineInline = 1 /\ lineBlock = 0

\* such a line with text after the marker, nothing carried into it
C6_Witness ==
  /\ LineScanned
  /\ HasPrefix(line, activeLanguage.inlineCommentStart)
  /\ Len(line) > Len(activeLanguage.inlineCommentStart)
  /\ carry = NoFlags
  /\ lineInline = 1

\* C7: the four-line file returns 4 lines, 1 inline and 2 block-comment
\* lines; the empty file returns zeros.
C7_EndToEnd ==
  pc = "returned" /\ ret.err = "nil" =>
    /\ file = FileAt("a/e2e.c") =>
         ret.stat = [TotalLines |-> 4, InlineComments |-> 1, BlockComments |-> 2]
    /\ file = FileAt("b/empty.h") => ret.stat = ZeroStats

\* the four-line file was scanned to its end
C7_Witness ==
  /\ pc = "returned"
  /\ ret.err = "nil"
  /\ file = FileAt("a/e2e.c")
  /\ pos = 4

\* the report lines printed so far
Reports == {k \in 1 .. Len(out) : out[k].kind = "report"}

\* C8: report lines exist only at the end of a run in which the language was
\* known, one existing directory was given, it held source files and each of
\* them was scanned without error; a run that ended with an error printed no
\* report line and kept no statistics.
C8_ReportOnlyOnSuccess ==
  /\ Reports # {} =>
       /\ pc = "exit"
       /\ err = "nil"
       /\ configured_lang \in DOMAIN languageSpecs
       /\ Len(args) = 1
       /\ args[1].exists
       /\ Len(files) > 0
       /\ DOMAIN stats = {files[k] : k \in 1 .. Len(files)}
       /\ Cardinality(Reports) = Len(files)
  /\ pc = "exit" /\ err # "nil" => Reports = {} /\ stats = NoStats

\* a file failed after another one had been scanned
C8_Witness ==
  /\ pc = "exit"
  /\ err = "error processing file"
  /\ fidx >= 2
  /\ Reports = {}

\* C9: the scan of every file starts with no construct open and zero
\* counters, and a file scanned after others gets the statistics of the file
\* of the same content scanned first.
C9_FreshStatePerFile ==
  /\ pc = "scan" /\ pos = 0 =>
       /\ Flags = NoFlags
       /\ currentStringDelimiter = << >>
       /\ stat = ZeroStats
  /\ \A f \in DOMAIN stats :
       files[1] \in DOMAIN stats /\ Disk[f].text = Disk[files[1]].text =>
         stats[f] = stats[files[1]]

\* a scan starts after a file that ended inside a block comment
C9_Witness ==
  /\ pc = "scan"
  /\ pos = 0
  /\ fidx > 1
  /\ left.block

\* C10: two files of the same lines get the same statistics.
C10_SameLinesSameStats ==
  \A f, g \in DOMAIN stats :
    Disk[f].text = Disk[g].text => stats[f] = stats[g]

\* the four-line file was scanned twice, a file with an open block comment
\* in between
C10_Witness ==
  /\ pc = "exit"
  /\ {FileAt("a/e2e.c"), FileAt("c/open.c"), FileAt("f/e2e.c")} \subseteq DOMAIN stats

\* C11: activeLanguage is written only by the step that leaves main, and no
\* step comes back to main; past main with a key of the registry it is the
\* entry of that key, the built-in one for the empty key; with any other key
\* the run is in main or at its exit, the error was printed, and no file was
\* collected, opened or scanned.
C11_LanguageSelectedOnceFirst ==
  /\ [][ (activeLanguage' # activeLanguage => pc = "main") /\ pc' # "main" ]_vars
  /\ [](pc # "main" /\ configured_lang \in DOMAIN languageSpecs =>
          /\ activeLanguage = languageSpecs[configured_lang]
          /\ env = "" => activeLanguage = languageSpecs["C/C++"])
  /\ [](configured_lang \notin DOMAIN languageSpecs =>
          /\ pc \in {"main", "exit"}
          /\ files = << >> /\ fidx = 0 /\ stats = NoStats /\ pos = 0
          /\ pc = "exit" => out = << [kind |-> "unsupported language"] >>)

\* the run ended on an unknown key, given a directory that holds source files
C11_Witness ==
  /\ pc = "exit"
  /\ configured_lang \notin DOMAIN languageSpecs
  /\ Len(args) = 1
  /\ \E e \in args[1].entries : ToLower[Disk[e].ext] = ".c"
  /\ out = << [kind |-> "unsupported language"] >>

\* C12: at most one of isInBlockComment, isInInlineComment and isInString is
\* set, at every cursor position and at every line boundary; a block comment
\* and a string are never both carried over a line boundary.
C12_AtMostOneConstructOpen ==
  /\ Cardinality({k \in {"block", "inline", "string"} : Flags[k]}) <= 1
  /\ ~(carry.block /\ carry.string)

\* a string that holds a block-comment start marker was carried over the end
\* of its line
C12_Witness ==
  /\ LineScanned
  /\ isInString
  /\ \E k \in 0 .. Len(line) : HasPrefix(From(line, k), activeLanguage.blockCommentStart)
  /\ ~isInBlockComment

\* C13 as stated: inside a string, at a position that starts neither the
\* delimiter of the string nor the escape character, a block-comment start
\* marker opens a block comment and an inline-comment start marker counts the
\* line as an inline comment.
C13_MarkerDetectedInString ==
  [][ InLoop /\ isInString /\ PastString =>
        /\ HasPrefix(rest, activeLanguage.blockCommentStart) => isInBlockComment'
        /\ HasPrefix(rest, activeLanguage.inlineCommentStart) =>
             stat'.InlineComments = stat.InlineComments + 1 ]_vars

\* C13 amended: at such a position control reaches the block-comment and
\* inline-comment checks, each of them fails on the open string, and the
\* cursor moves on by one character: no counter changes, no comment opens,
\* the string stays open with its delimiter and the scan of the line goes on.
C13_MarkerInertInString ==
  [][ InLoop /\ isInString /\ PastString =>
        /\ PastStringStart /\ ~BlockStartCond /\ ~InlineStartCond
        /\ i' = i + 1
        /\ stat' = stat
        /\ ~isInBlockComment' /\ ~isInInlineComment'
        /\ isInString' /\ currentStringDelimiter' = currentStringDelimiter
        /\ pc' = "loop" ]_vars

\* the cursor is at a block-comment start marker inside a string
C13_Witness ==
  /\ InLoop
  /\ isInString
  /\ PastString
  /\ HasPrefix(rest, activeLanguage.blockCommentStart)

\* the marker m occurs somewhere in l
Contains(l, m) == \E k \in 0 .. Len(l) : HasPrefix(From(l, k), m)

\* C14: a line adds 0 or 1 to BlockComments and 0 or 1 to InlineComments,
\* so neither counter exceeds TotalLines; a line on which the carried block
\* comment is closed and no inline marker follows adds 1 to BlockComments and
\* nothing to InlineComments.
C14_EachLineCountedAtMostOnce ==
  /\ lineBlock \in {0, 1}
  /\ lineInline \in {0, 1}
  /\ stat.BlockComments <= stat.TotalLines
  /\ stat.InlineComments <= stat.TotalLines
  /\ LineScanned /\ carry.block /\ ~isInBlockComment
       /\ ~Contains(line, activeLanguage.inlineCommentStart) =>
       lineBlock = 1 /\ lineInline = 0

\* a line on which the carried block comment was closed, another one opened
\* and closed, with code after each
C14_Witness ==
  /\ file = FileAt("l/reopen.c")
  /\ LineScanned
  /\ pos = 2
  /\ carry.block
  /\ ~isInBlockComment
  /\ lineBlock = 1

\* C15: before the first line no inline comment is open; after a line it is
\* open exactly if that line was counted as an inline comment and ends with
\* the continuation character.
C15_InlineOpenOnlyByContinuation ==
  /\ pc = "scan" /\ pos = 0 => ~isInInlineComment
  /\ LineScanned => (isInInlineComment <=> lineInline = 1 /\ lineContinued)

\* a line inside a block comment ends with the continuation character and
\* carries no inline comment on
C15_Witness ==
  /\ LineScanned
  /\ lineContinued
  /\ carry.block
  /\ lineInline = 0
  /\ ~isInInlineComment

\* C16: an iteration of the character loop that stays in the loop moves the
\* cursor forward, by 1 or 2, and the cursor is never more than one past the
\* end of the line; every call of analyzeFile returns, and when it returns
\* without an error of opening or reading it returns the statistics of all
\* the lines read.
C16_ScanTerminates ==
  /\ [][ pc = "loop" /\ pc' = "loop" => i' - i \in {1, 2} ]_vars
  /\ [](pc = "loop" => i <= Len(line) + 1)
  /\ <>(pc = "returned")
  /\ [](pc = "returned" /\ ret.err = "nil" =>
          ret.stat = stat /\ ret.stat.TotalLines = pos)

\* an escape character at the end of a line moved the cursor past the end
C16_Witness ==
  /\ pc = "loop"
  /\ isInString
  /\ i = Len(line) + 1

\* C17: at an escape character inside a string the cursor moves on by two
\* and nothing else changes; on each of the lines "a\"//b" and "\\" the
\* string opened at the first character is open at every later position of
\* the line, is closed at its end, and the line adds no comment.
C17_EscapeSkipsTwo ==
  /\ [][ InLoop /\ StringEscapeCond =>
           /\ i' = i + 2
           /\ isInString' /\ currentStringDelimiter' = currentStringDelimiter
           /\ stat' = stat
           /\ pc' = "loop" ]_vars
  /\ [](file = FileAt("i/escape.c") /\ pc = "loop" =>
          /\ 0 < i /\ i < Len(line) => isInString
          /\ i >= Len(line) => ~isInString /\ i = Len(line)
          /\ lineInline = 0 /\ lineBlock = 0)
  /\ [](file = FileAt("i/escape.c") /\ pc = "returned" /\ ret.err = "nil" =>
          ret.stat = [TotalLines |-> 2, InlineComments |-> 0, BlockComments |-> 0])

\* the first of the two lines was scanned to its end, the string closed
C17_Witness ==
  /\ file = FileAt("i/escape.c")
  /\ pc = "loop"
  /\ pos = 1
  /\ i = Len(line)
  /\ ~isInString

\* C18: no step taken while a block comment or an inline comment is open
\* opens a string, and the step that recognizes or carries on an inline
\* comment ends the scan of the line with no string open; the three lines
\* /* don't */, // don't and /* later */ return 1 inline and 2 block-comment
\* lines.
C18_NoStringInsideComment ==
  /\ [][ Scanning /\ (isInBlockComment \/ isInInlineComment) => ~isInString' ]_vars
  /\ [][ InlineStart \/ InlineCarry => pc' = "scan" /\ ~isInString' ]_vars
  /\ [](file = FileAt("k/dont.c") /\ pc = "returned" /\ ret.err = "nil" =>
          ret.stat = [TotalLines |-> 3, InlineComments |-> 1, BlockComments |-> 2])

\* the cursor is at the apostrophe inside the block comment
C18_Witness ==
  /\ file = FileAt("k/dont.c")
  /\ InLoop
  /\ isInBlockComment
  /\ HasPrefix(rest, <<"'">>)

\* C19: an open string is closed by no step but the one that finds, at the
\* cursor and not skipped as escaped, the delimiter that opened it; reading
\* the next line, empty or not, ending with the line-continuation character
\* or not, keeps the string and its delimiter; and while the string stays
\* open its delimiter and both comment counters stay as they are.
C19_StringStaysOpenAcrossLines ==
  /\ [][ Scanning /\ isInString /\ ~isInString' =>
           /\ InLoop
           /\ HasPrefix(rest, currentStringDelimiter)
           /\ i' = i + Len(currentStringDelimiter)
           /\ pc' = "loop" ]_vars
  /\ [][ pc = "scan" /\ isInString /\ pos' = pos + 1 =>
           /\ isInString'
           /\ currentStringDelimiter' = currentStringDelimiter
           /\ stat' = [stat EXCEPT !.TotalLines = @ + 1] ]_vars
  /\ [][ Scanning /\ isInString /\ isInString' =>
           /\ currentStringDelimiter' = currentStringDelimiter
           /\ stat'.InlineComments = stat.InlineComments
           /\ stat'.BlockComments = stat.BlockComments ]_vars
  /\ [](file = FileAt("n/split.c") /\ pc = "returned" /\ ret.err = "nil" =>
          ret.stat = [TotalLines |-> 2, InlineComments |-> 1, BlockComments |-> 0])

\* on the third line, at whose start the string was open, the cursor has
\* passed the other delimiter and the string is still open
C19_Witness ==
  /\ pc = "loop"
  /\ pos = 3
  /\ carry.string
  /\ isInString
  /\ currentStringDelimiter = <<"\"">>
  /\ i > 0
  /\ line[i] = "'"
  /\ stat.InlineComments = 0
  /\ stat.BlockComments = 0

\* C20: the regex revision and the cursor scanner, run on the same lines,
\* always agree on TotalLines, and not on the comments: the regex revision
\* adds a comment line for every line that holds // or /*, whatever the
\* cursor scanner has open; on x = "// not a comment"; it returns 1 inline
\* comment and the cursor scanner none; on s = "/* x"; followed by y; it
\* returns 2 block-comment lines and the cursor scanner none.
C20_RegexRevisionDiffers ==
  /\ [](regex.on)
  /\ [](Scanning => regex.stat.TotalLines = stat.TotalLines)
  /\ [](pc = "returned" /\ ret.err = "nil" =>
          regex.stat.TotalLines = ret.stat.TotalLines)
  /\ [][ pc = "scan" /\ pos' = pos + 1
         /\ (MatchString(inlineComment, line') \/ MatchString(blockStart, line')) =>
           regex'.stat.InlineComments + regex'.stat.BlockComments
             = regex.stat.InlineComments + regex.stat.BlockComments + 1 ]_vars
  /\ [](file = FileAt("g/STRING.CPP") /\ pc = "returned" /\ ret.err = "nil" =>
          /\ regex.stat = [TotalLines |-> 1, InlineComments |-> 1, BlockComments |-> 0]
          /\ ret.stat = [TotalLines |-> 1, InlineComments |-> 0, BlockComments |-> 0])
  /\ [](file = FileAt("m/instring.c") /\ pc = "returned" /\ ret.err = "nil" =>
          /\ regex.stat = [TotalLines |-> 2, InlineComments |-> 0, BlockComments |-> 2]
          /\ regex.inBlockComment
          /\ ret.stat = [TotalLines |-> 2, InlineComments |-> 0, BlockComments |-> 0])

\* both have returned on a file of two lines with markers inside strings
\* only: the totals agree and the comment counts do not
C20_Witness ==
  /\ regex.on
  /\ file = AnyFile
  /\ pc = "returned"
  /\ ret.err = "nil"
  /\ regex.stat.TotalLines = 2
  /\ ret.stat.TotalLines = 2
  /\ ret.stat.InlineComments + ret.stat.BlockComments = 0
  /\ regex.stat.InlineComments > 0
  /\ regex.stat.BlockComments > 0
====
